---- MODULE Spec2Model ----
(***************************************************************************)
(* aport::tree<T> (include/aport/aport.h): a radix tree keyed by strings   *)
(* with a most-recently-touched tracking list.                             *)
(*                                                                         *)
(* Keys and prefixes are sequences of characters.  optional<T> is a        *)
(* sequence of length 0 (nullopt) or 1 (engaged).  A node address is an    *)
(* opaque pair; unique_ptr<node> ownership is the heap function, whose     *)
(* domain is the set of live nodes.                                        *)
(***************************************************************************)
EXTENDS Integers, Sequences, FiniteSets, TLC

\* ------------------------------------------------------------------ bounds

\* Inserting operations are taken only while Length is below this cap.
MaxLength == 3

\* The keys the operations are called with: every prefix of a word of Words,
\* so that a key can end at a leaf, at an inner node, inside a node's prefix
\* or at the root, and the root can have two children.
Words == {<<"a", "a">>, <<"a", "b">>, <<"b">>}
Keys == UNION {{SubSeq(w, 1, n) : n \in 0..Len(w)} : w \in Words}

\* The values of T handed to insert; T() is the value-initialised T.
Values == {1}
DefaultT == 0

\* ------------------------------------------------------------------ state

VARIABLES
  cleared,              \* history: clear() has been called
  Root,                 \* unique_ptr<node> Root: address of the root node
  heap,                 \* live nodes: address -> [Data, Prefix, FirstCharToNode]
  Length,               \* size_t Length (never decremented at 0: LengthInRange)
  Nodes,                \* list<node_info> Nodes: sequence of [Key, Node]
  NodeToNodesIterator,  \* unordered_map<node *, nodes_iterator>
  crashed,              \* the process has been terminated by a fault
  stored,               \* history: Key -> value of the last insert still in force
  touched,              \* history: the keys of stored, last inserted or touched first
  lastOp                \* history: the operation that last changed the tree

vars ==
  <<cleared, Root, heap, Length, Nodes, NodeToNodesIterator, crashed, stored, touched,
    lastOp>>

\* ---------------------------------------------------------------- helpers

nullptr == << <<>>, -1 >>

\* The tree object as one record, as the member functions see it.  branch
\* names the code path the last member function took, and Return the node
\* whose value the reference that operator[] returns names.
Cur ==
  [Root |-> Root, heap |-> heap, Length |-> Length, Nodes |-> Nodes,
   NodeToNodesIterator |-> NodeToNodesIterator, crashed |-> crashed,
   branch |-> "none", Return |-> nullptr]
NUL == "NUL"

Put(f, k, v) == [x \in (DOMAIN f) \cup {k} |-> IF x = k THEN v ELSE f[x]]
Del(f, k) == [x \in (DOMAIN f) \ {k} |-> f[x]]

\* *(s.c_str() + i): the character at offset i, the terminator at the end.
Deref(s, i) == IF i < Len(s) THEN s[i + 1] ELSE NUL

\* string(p + n, len - n)
Drop(s, n) == SubSeq(s, n + 1, Len(s))
Take(s, n) == SubSeq(s, 1, n)

\* node(Prefix) and node(Prefix, Data)
node(Prefix, Data) == [Data |-> Data, Prefix |-> Prefix, FirstCharToNode |-> <<>>]

\* Addresses that are still keys of NodeToNodesIterator although their node
\* has been destroyed.
Dangling(t) == (DOMAIN t.NodeToNodesIterator) \ (DOMAIN t.heap)

\* The address of a destroyed node is opaque: all that can be observed of it
\* is whether a later node has the same address.  Renamed(t, f) is the tree
\* with every address n that Nodes and NodeToNodesIterator remember written
\* f[n]; f is one-to-one.
Renamed(t, f) ==
  LET ren(e) == [e EXCEPT !.Node = f[e.Node]]
      old(m) == CHOOSE n \in DOMAIN f : f[n] = m
  IN  IF \A n \in DOMAIN f : f[n] = n
        THEN t
        ELSE [t EXCEPT !.Nodes = [i \in DOMAIN t.Nodes |-> ren(t.Nodes[i])],
                       !.NodeToNodesIterator =
                         [m \in {f[n] : n \in DOMAIN f} |->
                            ren(t.NodeToNodesIterator[old(m)])]]

\* make_unique<node>(...): the allocator returns an address that is not in
\* use, either one that NodeToNodesIterator still remembers from a destroyed
\* node (Reuse) or one seen nowhere else.  The address is written <<Path, i>>
\* after the path of the new node N, with the first i that is free; [t, p] is
\* the tree with N allocated, and the address of N.
make_unique(t, Path, Reuse, N) ==
  LET used == (DOMAIN t.heap) \cup (DOMAIN t.NodeToNodesIterator)
      g == CHOOSE i \in 1..(Cardinality(used) + 1) :
             /\ <<Path, i>> \notin used
             /\ \A j \in 1..(i - 1) : <<Path, j>> \in used
      p == <<Path, g>>
      t1 == IF Reuse \in Dangling(t)
              THEN Renamed(t, [n \in DOMAIN t.NodeToNodesIterator |->
                                 IF n = Reuse THEN p ELSE n])
              ELSE t
  IN  [t |-> [t1 EXCEPT !.heap = Put(@, p, N)], p |-> p]

\* Nodes owned, directly or not, by the unique_ptr at address n.
RECURSIVE Owned(_, _)
Owned(h, n) ==
  {n} \cup UNION {Owned(h, h[n].FirstCharToNode[c]) : c \in DOMAIN h[n].FirstCharToNode}

\* ~unique_ptr<node>: the nodes no unique_ptr owns any more are destroyed.  An
\* address NodeToNodesIterator still remembers is from then on written
\* <<Key, 0>>, after the key of the entry that remembers it.
release(t) ==
  LET live == Owned(t.heap, t.Root)
      f == [n \in DOMAIN t.NodeToNodesIterator |->
              IF n \in live THEN n ELSE <<t.NodeToNodesIterator[n].Key, 0>>]
  IN  Renamed([t EXCEPT !.heap = [n \in live |-> t.heap[n]]], f)

\* ------------------------------------------------------- compare_prefixes

\* The loop that takes every character up to MinLength as matching.
MatchLoopAll(P, S, NMatched, MinLength) == MinLength

\* The loop that stops at once, whatever the characters are.
MatchLoopNone(P, S, NMatched, MinLength) == NMatched

RECURSIVE MatchLoop(_, _, _, _)
MatchLoop(P, S, NMatched, MinLength) ==
  IF Deref(P, NMatched) = Deref(S, NMatched) /\ NMatched < MinLength
    THEN MatchLoop(P, S, NMatched + 1, MinLength)
    ELSE NMatched

\* compare_prefixes that compares lengths only, whatever UseRadix is.
compare_prefixes_lengths(UseRadix, Prefix, String) ==
  IF Len(Prefix) < Len(String)
    THEN [Result |-> "prefix_full_match", NMatched |-> Len(Prefix)]
    ELSE IF Len(Prefix) = Len(String)
           THEN [Result |-> "exact_match", NMatched |-> Len(Prefix)]
           ELSE [Result |-> "no_match", NMatched |-> 0]

\* compare_prefixes whose optimistic verification never finds the end of the
\* key: a prefix that is not longer than the string is a prefix_full_match.
compare_prefixes_no_end(UseRadix, Prefix, String) ==
  LET PrefixLength == Len(Prefix)
      StringLength == Len(String)
  IN  IF UseRadix
        THEN LET MinLength == IF PrefixLength < StringLength
                                THEN PrefixLength ELSE StringLength
                 NMatched == MatchLoop(Prefix, String, 0, MinLength)
             IN  IF PrefixLength = NMatched
                   THEN IF StringLength = NMatched
                          THEN [Result |-> "exact_match", NMatched |-> NMatched]
                          ELSE [Result |-> "prefix_full_match", NMatched |-> NMatched]
                   ELSE IF NMatched = 0
                          THEN [Result |-> "no_match", NMatched |-> NMatched]
                          ELSE [Result |-> "partial_match", NMatched |-> NMatched]
        ELSE IF PrefixLength <= StringLength
               THEN [Result |-> "prefix_full_match", NMatched |-> PrefixLength]
               ELSE [Result |-> "no_match", NMatched |-> 0]

compare_prefixes(UseRadix, Prefix, String) ==
  LET PrefixLength == Len(Prefix)
      StringLength == Len(String)
  IN  IF UseRadix
        THEN LET MinLength == IF PrefixLength < StringLength
                                THEN PrefixLength ELSE StringLength
                 NMatched == MatchLoop(Prefix, String, 0, MinLength)
             IN  IF PrefixLength = NMatched
                   THEN IF StringLength = NMatched
                          THEN [Result |-> "exact_match", NMatched |-> NMatched]
                          ELSE [Result |-> "prefix_full_match", NMatched |-> NMatched]
                   ELSE IF NMatched = 0
                          THEN [Result |-> "no_match", NMatched |-> NMatched]
                          ELSE [Result |-> "partial_match", NMatched |-> NMatched]
        ELSE IF PrefixLength < StringLength
               THEN [Result |-> "prefix_full_match", NMatched |-> PrefixLength]
               ELSE IF PrefixLength = StringLength
                      THEN [Result |-> "exact_match", NMatched |-> PrefixLength]
                      ELSE [Result |-> "no_match", NMatched |-> 0]

\* --------------------------------------------------------- track, untrack

\* Nodes.erase(It): a list iterator designates one entry.
ListErase(L, It) == SelectSeq(L, LAMBDA e : e # It)

\* track that leaves the entry the map remembered for Node in the list.
trackKeepOld(t, Node, Key) ==
  LET entry == [Key |-> Key, Node |-> Node]
  IN  [t EXCEPT !.Nodes = <<entry>> \o t.Nodes,
                !.NodeToNodesIterator = Put(t.NodeToNodesIterator, Node, entry)]

\* emplace_front, then erase of the entry the map remembered for Node (a
\* different list element, so the two commute), then the map update.
track(t, Node, Key) ==
  LET entry == [Key |-> Key, Node |-> Node]
      rest == IF Node \in DOMAIN t.NodeToNodesIterator
                THEN ListErase(t.Nodes, t.NodeToNodesIterator[Node])
                ELSE t.Nodes
  IN  [t EXCEPT !.Nodes = <<entry>> \o rest,
                !.NodeToNodesIterator = Put(t.NodeToNodesIterator, Node, entry)]

\* extract() of an absent key returns an empty node handle, and mapped() on
\* an empty handle dereferences a null pointer: the process is terminated
\* (an assertion failure in a checked build, a fault on the read otherwise).
untrack(t, Node) ==
  IF Node \in DOMAIN t.NodeToNodesIterator
    THEN [t EXCEPT !.Nodes = ListErase(t.Nodes, t.NodeToNodesIterator[Node]),
                   !.NodeToNodesIterator = Del(t.NodeToNodesIterator, Node)]
    ELSE [t EXCEPT !.crashed = TRUE]

\* ------------------------------------------------------------------ insert

\* split that leaves the split node its whole prefix.
splitWholePrefix(t, Key, Value, KeyPtr, NMatched, Parent, Node, NodeAccessor, R1, R2) ==
  IF Parent = nullptr
    THEN [t EXCEPT !.crashed = TRUE, !.branch = "null_parent"]
    ELSE
      LET a1 == make_unique(t, Take(Key, Len(Key) - Len(KeyPtr)), R1,
                            node(Take(t.heap[Node].Prefix, NMatched), <<>>))
          IntermediateNode == a1.p
          CurrentNode == a1.t.heap[Parent].FirstCharToNode[NodeAccessor]
          shortened == a1.t.heap[CurrentNode].Prefix
          t1 == [a1.t EXCEPT
                   !.heap[CurrentNode].Prefix = shortened,
                   !.heap[IntermediateNode].FirstCharToNode =
                      Put(@, Deref(shortened, 0), CurrentNode)]
          t2 == IF Len(KeyPtr) > 0
                  THEN LET a2 == make_unique(t1, Key, R2, node(KeyPtr, <<Value>>))
                           NewNode == a2.p
                           t3 == track(a2.t, NewNode, Key)
                       IN  [t3 EXCEPT !.heap[IntermediateNode].FirstCharToNode =
                                         Put(@, Deref(KeyPtr, 0), NewNode),
                                      !.Return = NewNode,
                                      !.branch = "split_leaf"]
                  ELSE LET t3 == track(t1, IntermediateNode, Key)
                       IN  [t3 EXCEPT !.heap[IntermediateNode].Data = <<Value>>,
                                      !.Return = IntermediateNode,
                                      !.branch = "split_here"]
      IN  release([t2 EXCEPT !.heap[Parent].FirstCharToNode[NodeAccessor] =
                                IntermediateNode,
                             !.Length = @ + 1])

\* The partial_match case of insert and of operator[] (the same text in both):
\* Node is split where the key leaves its prefix.  KeyPtr is the key that is
\* left after the matched characters; a null Parent is dereferenced.
split(t, Key, Value, KeyPtr, NMatched, Parent, Node, NodeAccessor, R1, R2) ==
  IF Parent = nullptr
    THEN [t EXCEPT !.crashed = TRUE, !.branch = "null_parent"]
    ELSE
      LET a1 == make_unique(t, Take(Key, Len(Key) - Len(KeyPtr)), R1,
                            node(Take(t.heap[Node].Prefix, NMatched), <<>>))
          IntermediateNode == a1.p
          CurrentNode == a1.t.heap[Parent].FirstCharToNode[NodeAccessor]
          shortened == Drop(a1.t.heap[CurrentNode].Prefix, NMatched)
          t1 == [a1.t EXCEPT
                   !.heap[CurrentNode].Prefix = shortened,
                   !.heap[IntermediateNode].FirstCharToNode =
                      Put(@, Deref(shortened, 0), CurrentNode)]
          t2 == IF Len(KeyPtr) > 0
                  THEN LET a2 == make_unique(t1, Key, R2, node(KeyPtr, <<Value>>))
                           NewNode == a2.p
                           t3 == track(a2.t, NewNode, Key)
                       IN  [t3 EXCEPT !.heap[IntermediateNode].FirstCharToNode =
                                         Put(@, Deref(KeyPtr, 0), NewNode),
                                      !.Return = NewNode,
                                      !.branch = "split_leaf"]
                  ELSE LET t3 == track(t1, IntermediateNode, Key)
                       IN  [t3 EXCEPT !.heap[IntermediateNode].Data = <<Value>>,
                                      !.Return = IntermediateNode,
                                      !.branch = "split_here"]
      IN  release([t2 EXCEPT !.heap[Parent].FirstCharToNode[NodeAccessor] =
                                IntermediateNode,
                             !.Length = @ + 1])

\* insertHere that keeps the value a node already holds.
insertHereKeep(t, Key, Value, Node) ==
  LET had == t.heap[Node].Data # <<>>
      t1 == [t EXCEPT !.Length = IF had THEN @ ELSE @ + 1,
                      !.heap[Node].Data = IF had THEN @ ELSE <<Value>>,
                      !.branch = IF had THEN "overwrite" ELSE "fill"]
  IN  track(t1, Node, Key)

\* insertHere that counts every insert as a new key.
insertHereCount(t, Key, Value, Node) ==
  LET had == t.heap[Node].Data # <<>>
      t1 == [t EXCEPT !.Length = @ + 1,
                      !.heap[Node].Data = <<Value>>,
                      !.branch = IF had THEN "overwrite" ELSE "fill"]
  IN  track(t1, Node, Key)

\* The exact_match case of insert: Node is where Key ends.
insertHere(t, Key, Value, Node) ==
  LET had == t.heap[Node].Data # <<>>
      t1 == [t EXCEPT !.Length = IF had THEN @ ELSE @ + 1,
                      !.heap[Node].Data = <<Value>>,
                      !.branch = IF had THEN "overwrite" ELSE "fill"]
  IN  track(t1, Node, Key)

RECURSIVE insertLoop(_, _, _, _, _, _, _, _, _)
insertLoop(t, Key, Value, KeyPtr0, Parent, Node, NodeAccessor0, R1, R2) ==
  LET cmp == compare_prefixes(TRUE, t.heap[Node].Prefix, KeyPtr0)
      KeyPtr == Drop(KeyPtr0, cmp.NMatched)
  IN  CASE cmp.Result = "no_match" ->
             \* PATH_UNREACHABLE()
             [t EXCEPT !.crashed = TRUE, !.branch = "no_match"]
        [] cmp.Result = "prefix_full_match" ->
             LET NodeAccessor == Deref(KeyPtr, 0)
             IN  IF NodeAccessor \in DOMAIN t.heap[Node].FirstCharToNode
                   THEN insertLoop(t, Key, Value, KeyPtr, Node,
                                   t.heap[Node].FirstCharToNode[NodeAccessor],
                                   NodeAccessor, R1, R2)
                   ELSE LET a1 == make_unique(t, Key, R1, node(KeyPtr, <<Value>>))
                            NewNode == a1.p
                            t1 == track(a1.t, NewNode, Key)
                        IN  [t1 EXCEPT !.heap[Node].FirstCharToNode =
                                          Put(@, NodeAccessor, NewNode),
                                       !.Length = @ + 1,
                                       !.branch = "new_leaf"]
        [] cmp.Result = "partial_match" ->
             split(t, Key, Value, KeyPtr, cmp.NMatched, Parent, Node,
                   NodeAccessor0, R1, R2)
        [] cmp.Result = "exact_match" ->
             insertHere(t, Key, Value, Node)

insert(t, Key, Value, R1, R2) ==
  insertLoop(t, Key, Value, Key, nullptr, t.Root, NUL, R1, R2)

\* -------------------------------------------------------------- operator[]

\* subscriptHere that stores a new value also where one is held.
subscriptHereReset(t, Key, Node) ==
  LET had == t.heap[Node].Data # <<>>
      t1 == [t EXCEPT !.Length = IF had THEN @ ELSE @ + 1,
                      !.heap[Node].Data = <<DefaultT>>,
                      !.Return = Node,
                      !.branch = IF had THEN "read" ELSE "fill"]
  IN  track(t1, Node, Key)

\* subscriptHere that does not track the node of a value that is held.
subscriptHereNoTouch(t, Key, Node) ==
  IF t.heap[Node].Data # <<>>
    THEN [t EXCEPT !.Return = Node, !.branch = "read"]
    ELSE track([t EXCEPT !.Length = @ + 1,
                         !.heap[Node].Data = <<DefaultT>>,
                         !.Return = Node,
                         !.branch = "fill"], Node, Key)

\* The exact_match case of operator[]: a value is made only if none is held.
subscriptHere(t, Key, Node) ==
  LET had == t.heap[Node].Data # <<>>
      t1 == IF had
              THEN [t EXCEPT !.Return = Node, !.branch = "read"]
              ELSE [t EXCEPT !.Length = @ + 1,
                             !.heap[Node].Data = <<DefaultT>>,
                             !.Return = Node,
                             !.branch = "fill"]
  IN  track(t1, Node, Key)

RECURSIVE subscriptLoop(_, _, _, _, _, _, _, _)
subscriptLoop(t, Key, KeyPtr0, Parent, Node, NodeAccessor0, R1, R2) ==
  LET cmp == compare_prefixes(TRUE, t.heap[Node].Prefix, KeyPtr0)
      KeyPtr == Drop(KeyPtr0, cmp.NMatched)
  IN  CASE cmp.Result = "no_match" ->
             \* PATH_UNREACHABLE()
             [t EXCEPT !.crashed = TRUE, !.branch = "no_match"]
        [] cmp.Result = "prefix_full_match" ->
             LET NodeAccessor == Deref(KeyPtr, 0)
             IN  IF NodeAccessor \in DOMAIN t.heap[Node].FirstCharToNode
                   THEN subscriptLoop(t, Key, KeyPtr, Node,
                                      t.heap[Node].FirstCharToNode[NodeAccessor],
                                      NodeAccessor, R1, R2)
                   ELSE LET a1 == make_unique(t, Key, R1, node(KeyPtr, <<DefaultT>>))
                            NewNode == a1.p
                            t1 == track(a1.t, NewNode, Key)
                        IN  [t1 EXCEPT !.heap[Node].FirstCharToNode =
                                          Put(@, NodeAccessor, NewNode),
                                       !.Length = @ + 1,
                                       !.Return = NewNode,
                                       !.branch = "new_leaf"]
        [] cmp.Result = "partial_match" ->
             split(t, Key, DefaultT, KeyPtr, cmp.NMatched, Parent, Node,
                   NodeAccessor0, R1, R2)
        [] cmp.Result = "exact_match" ->
             subscriptHere(t, Key, Node)

subscript(t, Key, R1, R2) ==
  subscriptLoop(t, Key, Key, nullptr, t.Root, NUL, R1, R2)

\* ------------------------------------------------------------------- erase

\* mergedPrefix that forgets the prefix of the node that is merged away.
mergedPrefixChildOnly(Prefix, ChildPrefix) == ChildPrefix

\* The merge with the two prefixes the other way round.
mergedPrefixReversed(Prefix, ChildPrefix) == ChildPrefix \o Prefix

\* Child->Prefix = Prefix + Child->Prefix, in both merges.
mergedPrefix(Prefix, ChildPrefix) == Prefix \o ChildPrefix

\* reorganize that leaves every node where it is.
reorganizeNothing(t, ParentParent, Parent, Node, NodeAccessor) ==
  [t EXCEPT !.branch = IF Node = t.Root THEN "root" ELSE "many_children"]

\* The reorganisation after Node lost its value: nothing at the root; a node
\* without children leaves its parent, and a value-less parent left with one
\* child is merged into that child; a node with one child is merged into it;
\* a node with more children stays.
reorganize(t, ParentParent, Parent, Node, NodeAccessor) ==
  LET NChildren == Cardinality(DOMAIN t.heap[Node].FirstCharToNode)
  IN  IF Node = t.Root
        THEN [t EXCEPT !.branch = "root"]
      ELSE IF NChildren = 0
        THEN LET h1 == [t.heap EXCEPT ![Parent].FirstCharToNode = Del(@, NodeAccessor)]
                 P == h1[Parent]
             IN  IF /\ ParentParent # nullptr
                    /\ P.Data = <<>>
                    /\ Cardinality(DOMAIN P.FirstCharToNode) = 1
                   THEN LET C == CHOOSE c \in DOMAIN P.FirstCharToNode : TRUE
                            Child == P.FirstCharToNode[C]
                            merged == mergedPrefix(P.Prefix, h1[Child].Prefix)
                            h2 == [h1 EXCEPT ![Child].Prefix = merged,
                                             ![Parent].FirstCharToNode = Del(@, C)]
                            h3 == [h2 EXCEPT ![ParentParent].FirstCharToNode =
                                               Put(@, Deref(merged, 0), Child)]
                        IN  [t EXCEPT !.heap = h3, !.branch = "leaf_merge_parent"]
                   ELSE [t EXCEPT !.heap = h1, !.branch = "leaf"]
      ELSE IF NChildren = 1
        THEN LET N == t.heap[Node]
                 C == CHOOSE c \in DOMAIN N.FirstCharToNode : TRUE
                 Child == N.FirstCharToNode[C]
                 merged == mergedPrefix(N.Prefix, t.heap[Child].Prefix)
                 h1 == [t.heap EXCEPT ![Child].Prefix = merged,
                                      ![Node].FirstCharToNode = Del(@, C)]
                 h2 == [h1 EXCEPT ![Parent].FirstCharToNode = Put(@, NodeAccessor, Child)]
             IN  [t EXCEPT !.heap = h2, !.branch = "one_child"]
        ELSE [t EXCEPT !.branch = "many_children"]

\* eraseAt that leaves the value in the node.
eraseAtKeepData(t, ParentParent, Parent, Node, NodeAccessor) ==
  LET t1 == untrack(t, Node)
  IN  IF t1.crashed
        THEN [t1 EXCEPT !.branch = "untrack_absent"]
        ELSE LET t3 == [t1 EXCEPT !.branch = "many_children"]
             IN  release([t3 EXCEPT !.Length = @ - 1])

\* eraseAt that does not decrement Length.
eraseAtNoCount(t, ParentParent, Parent, Node, NodeAccessor) ==
  LET t1 == untrack(t, Node)
  IN  IF t1.crashed
        THEN [t1 EXCEPT !.branch = "untrack_absent"]
        ELSE LET t2 == [t1 EXCEPT !.heap[Node].Data = <<>>]
                 t3 == reorganize(t2, ParentParent, Parent, Node, NodeAccessor)
             IN  release(t3)

\* The exact_match case of erase: Node is where the key ends.  It is untracked
\* and emptied whether or not it holds a value, and Length is decremented.
eraseAt(t, ParentParent, Parent, Node, NodeAccessor) ==
  LET t1 == untrack(t, Node)
  IN  IF t1.crashed
        THEN [t1 EXCEPT !.branch = "untrack_absent"]
        ELSE LET t2 == [t1 EXCEPT !.heap[Node].Data = <<>>]
                 t3 == reorganize(t2, ParentParent, Parent, Node, NodeAccessor)
             IN  release([t3 EXCEPT !.Length = @ - 1])

RECURSIVE eraseLoop(_, _, _, _, _, _)
eraseLoop(t, KeyPtr0, ParentParent, Parent, Node, NodeAccessor0) ==
  LET cmp == compare_prefixes(TRUE, t.heap[Node].Prefix, KeyPtr0)
      KeyPtr == Drop(KeyPtr0, cmp.NMatched)
  IN  CASE cmp.Result \in {"no_match", "partial_match"} ->
             [t EXCEPT !.branch = "absent"]
        [] cmp.Result = "prefix_full_match" ->
             LET NodeAccessor == Deref(KeyPtr, 0)
             IN  IF NodeAccessor \in DOMAIN t.heap[Node].FirstCharToNode
                   THEN eraseLoop(t, KeyPtr, Parent, Node,
                                  t.heap[Node].FirstCharToNode[NodeAccessor],
                                  NodeAccessor)
                   ELSE [t EXCEPT !.branch = "absent"]
        [] cmp.Result = "exact_match" ->
             eraseAt(t, ParentParent, Parent, Node, NodeAccessor0)

erase(t, Key) == eraseLoop(t, Key, nullptr, nullptr, t.Root, NUL)

\* ----------------------------------------------------------- contains, get

RECURSIVE containsLoop(_, _, _)
containsLoop(t, KeyPtr0, Node) ==
  LET cmp == compare_prefixes(TRUE, t.heap[Node].Prefix, KeyPtr0)
      KeyPtr == Drop(KeyPtr0, cmp.NMatched)
  IN  CASE cmp.Result = "no_match" -> FALSE
        [] cmp.Result = "prefix_full_match" ->
             LET NodeAccessor == Deref(KeyPtr, 0)
             IN  IF NodeAccessor \in DOMAIN t.heap[Node].FirstCharToNode
                   THEN containsLoop(t, KeyPtr, t.heap[Node].FirstCharToNode[NodeAccessor])
                   ELSE FALSE
        [] cmp.Result = "partial_match" -> FALSE
        [] cmp.Result = "exact_match" -> t.heap[Node].Data # <<>>

contains(t, Key) == containsLoop(t, Key, t.Root)

\* What get hands back: a reference to the value, or a thrown no_such_key.
Returned(v) == [thrown |-> FALSE, value |-> <<v>>, KeyName |-> <<>>]
\* no_such_key that carries the key without its first character.
no_such_key_rest(KeyName) ==
  [thrown |-> TRUE, value |-> <<>>, KeyName |-> Drop(KeyName, 1)]

no_such_key(KeyName) == [thrown |-> TRUE, value |-> <<>>, KeyName |-> KeyName]

RECURSIVE getLoop(_, _, _, _, _)
getLoop(t, UseRadix, Key, KeyPtr0, Node) ==
  LET cmp == compare_prefixes(UseRadix, t.heap[Node].Prefix, KeyPtr0)
      KeyPtr == Drop(KeyPtr0, cmp.NMatched)
  IN  CASE cmp.Result \in {"no_match", "partial_match"} -> no_such_key(Key)
        [] cmp.Result = "prefix_full_match" ->
             LET NodeAccessor == Deref(KeyPtr, 0)
             IN  IF NodeAccessor \in DOMAIN t.heap[Node].FirstCharToNode
                   THEN getLoop(t, UseRadix, Key, KeyPtr,
                                t.heap[Node].FirstCharToNode[NodeAccessor])
                   ELSE no_such_key(Key)
        [] cmp.Result = "exact_match" ->
             IF t.heap[Node].Data # <<>>
               THEN Returned(t.heap[Node].Data[1])
               ELSE no_such_key(Key)

get(t, UseRadix, Key) == getLoop(t, UseRadix, Key, Key, t.Root)

\* The nodes get compares, from Node on, in the order it visits them: it goes
\* on to a child only after a prefix_full_match.
RECURSIVE getPath(_, _, _, _)
getPath(t, UseRadix, KeyPtr0, Node) ==
  LET cmp == compare_prefixes(UseRadix, t.heap[Node].Prefix, KeyPtr0)
      KeyPtr == Drop(KeyPtr0, cmp.NMatched)
      NodeAccessor == Deref(KeyPtr, 0)
  IN  IF /\ cmp.Result = "prefix_full_match"
         /\ NodeAccessor \in DOMAIN t.heap[Node].FirstCharToNode
        THEN <<Node>> \o getPath(t, UseRadix, KeyPtr,
                                 t.heap[Node].FirstCharToNode[NodeAccessor])
        ELSE <<Node>>

\* What contains and get do to the members of the tree.  Their one
\* expression that is not a read is Node->FirstCharToNode[NodeAccessor]:
\* operator[] of unordered_map inserts a null unique_ptr for an absent key.
child(t, Node, NodeAccessor) ==
  IF NodeAccessor \in DOMAIN t.heap[Node].FirstCharToNode
    THEN [t |-> t, p |-> t.heap[Node].FirstCharToNode[NodeAccessor]]
    ELSE [t |-> [t EXCEPT !.heap[Node].FirstCharToNode = Put(@, NodeAccessor, nullptr)],
          p |-> nullptr]

\* A traversal that follows FirstCharToNode[NodeAccessor] without asking
\* FirstCharToNode.contains(NodeAccessor) first.
RECURSIVE traverseUnasked(_, _, _, _)
traverseUnasked(t, UseRadix, KeyPtr0, Node) ==
  IF Node = nullptr
    THEN [t EXCEPT !.crashed = TRUE]
    ELSE LET cmp == compare_prefixes(UseRadix, t.heap[Node].Prefix, KeyPtr0)
             KeyPtr == Drop(KeyPtr0, cmp.NMatched)
         IN  IF cmp.Result = "prefix_full_match"
               THEN LET c == child(t, Node, Deref(KeyPtr, 0))
                    IN  traverseUnasked(c.t, UseRadix, KeyPtr, c.p)
               ELSE t

\* The tree after the loop of contains (UseRadix) and of get: the child is
\* taken with operator[] only where contains(NodeAccessor) is true, and every
\* other statement reads, returns or throws.
RECURSIVE traverse(_, _, _, _)
traverse(t, UseRadix, KeyPtr0, Node) ==
  LET cmp == compare_prefixes(UseRadix, t.heap[Node].Prefix, KeyPtr0)
      KeyPtr == Drop(KeyPtr0, cmp.NMatched)
  IN  IF cmp.Result = "prefix_full_match"
           /\ Deref(KeyPtr, 0) \in DOMAIN t.heap[Node].FirstCharToNode
        THEN LET c == child(t, Node, Deref(KeyPtr, 0))
             IN  traverse(c.t, UseRadix, KeyPtr, c.p)
        ELSE t

\* ------------------------------------------------------------------- clear

\* Root = make_unique<node>(""): the new root is allocated, then the old
\* tree is destroyed.  No other member is touched.
clear(t, R1) ==
  LET a1 == make_unique(t, <<>>, R1, node(<<>>, <<>>))
  IN  release([a1.t EXCEPT !.Root = a1.p, !.branch = "clear"])

length(t) == t.Length

\* ---------------------------------------------------------------- iterator

\* Node->Data has a value: Node is a node of the tree and its optional is set.
Holds(t, n) == n \in DOMAIN t.heap /\ t.heap[n].Data # <<>>

\* An iterator is a position of the list Nodes; end() is the position past
\* its last entry.
begin(t) == 1
end(t) == Len(t.Nodes) + 1
increment(t, Iterator) == Iterator + 1

\* What the Node pointer of an entry names: a node of the tree ("live"), a
\* node that was destroyed ("destroyed"), or no node ("null").
Names(t, Node) ==
  IF Node = nullptr THEN "null" ELSE IF Node \in DOMAIN t.heap THEN "live" ELSE "destroyed"

\* operator*: result(NodeInfo.Key, *NodeInfo.Node->Data).  Value is the value
\* the node holds; it is defined only for a live node that holds one.
dereference(t, Iterator) ==
  LET NodeInfo == t.Nodes[Iterator]
  IN  [Key |-> NodeInfo.Key,
       Value |-> IF Holds(t, NodeInfo.Node) THEN t.heap[NodeInfo.Node].Data ELSE <<>>,
       Node |-> Names(t, NodeInfo.Node)]

\* for (auto [key, value] : Tree): every position from begin() up to end().
iterate(t) == [Iterator \in begin(t) .. end(t) - 1 |-> dereference(t, Iterator)]

\* ------------------------------------------------------------ copy, move

\* The address make_unique returns for the copy of the node at n while Other
\* is alive: an address that Other neither uses nor remembers.
Fresh(Other, n) ==
  <<n[1], n[2] + Cardinality((DOMAIN Other.heap) \cup (DOMAIN Other.NodeToNodesIterator)) + 1>>

\* tree(const tree &Other).  OtherNodeToNode maps every node reached from
\* Other.Root to its copy; operator[] of a pointer that is not among them
\* inserts it with a null pointer.  Nodes is filled from the back of
\* Other.Nodes with emplace_front, and NodeToNodesIterator[NodePtr] is
\* overwritten every time, so it ends at the first entry that has NodePtr.
copy(Other) ==
  LET OtherNodeToNode == [n \in DOMAIN Other.heap |-> Fresh(Other, n)]
      NodePtr(OtherNode) ==
        IF OtherNode \in DOMAIN OtherNodeToNode
          THEN OtherNodeToNode[OtherNode]
          ELSE nullptr
      shallow_copy(OtherNode) ==
        [Prefix |-> Other.heap[OtherNode].Prefix,
         Data |-> Other.heap[OtherNode].Data,
         FirstCharToNode |->
           [FirstChar \in DOMAIN Other.heap[OtherNode].FirstCharToNode |->
              OtherNodeToNode[Other.heap[OtherNode].FirstCharToNode[FirstChar]]]]
      OtherOf(Node) == CHOOSE n \in DOMAIN OtherNodeToNode : OtherNodeToNode[n] = Node
      CopiedNodes ==
        [I \in DOMAIN Other.Nodes |->
           [Key |-> Other.Nodes[I].Key, Node |-> NodePtr(Other.Nodes[I].Node)]]
      First(Node) ==
        CHOOSE I \in DOMAIN CopiedNodes :
          /\ CopiedNodes[I].Node = Node
          /\ \A J \in 1 .. (I - 1) : CopiedNodes[J].Node # Node
  IN  [Root |-> OtherNodeToNode[Other.Root],
       heap |-> [Node \in {OtherNodeToNode[n] : n \in DOMAIN OtherNodeToNode} |->
                   shallow_copy(OtherOf(Node))],
       Length |-> Other.Length,
       Nodes |-> CopiedNodes,
       NodeToNodesIterator |->
         [Node \in {CopiedNodes[I].Node : I \in DOMAIN CopiedNodes} |->
            CopiedNodes[First(Node)]],
       crashed |-> FALSE,
       branch |-> "copy",
       Return |-> nullptr]

\* operator=(const tree &Other): this->~tree(), then the copy constructor in
\* place; an assignment of a tree to itself does nothing.
copy_assign(This, Other, Self) == IF Self THEN This ELSE copy(Other)

\* tree(tree &&Other): Root, Nodes and NodeToNodesIterator are moved and
\* Length is copied.  Other is left with a null Root, with the Length it
\* had, and with the empty list and map that a moved-from container is.
move(Other) ==
  [This |-> [Other EXCEPT !.branch = "move"],
   Other |-> [Other EXCEPT !.Root = nullptr,
                           !.heap = <<>>,
                           !.Nodes = <<>>,
                           !.NodeToNodesIterator = <<>>,
                           !.branch = "moved_from"]]

\* operator=(tree &&Other): this->~tree(), then the move constructor in
\* place; an assignment of a tree to itself does nothing.
move_assign(This, Other, Self) ==
  IF Self THEN [This |-> This, Other |-> This] ELSE move(Other)

\* What a read through a pointer to a destroyed node, or of an optional that
\* holds no value, can do: the read goes through and the call goes on, or
\* the process is terminated (a checked build asserts that the optional is
\* engaged; the freed memory may say either).
Undefined == {"returns", "fault"}

\* The position in the list L of the entry an iterator designated, 0 if the
\* entry was erased (the iterator is invalid).  The entry is found as it was,
\* or with the name release gives the address of a node destroyed since.
Position(L, NodeInfo) ==
  LET Released == [NodeInfo EXCEPT !.Node = <<NodeInfo.Key, 0>>]
  IN  IF \E j \in DOMAIN L : L[j] = NodeInfo
        THEN CHOOSE j \in DOMAIN L : L[j] = NodeInfo
        ELSE IF \E j \in DOMAIN L : L[j] = Released
               THEN CHOOSE j \in DOMAIN L : L[j] = Released
               ELSE 0

\* erase(iterator): auto [key, value] = *Iterator; ++ Iterator; erase(key);
\* return Iterator.  The result is the tree after the call and the position
\* the returned iterator has in its list.
eraseIterator(t, Iterator, Outcome) ==
  LET NodeInfo == t.Nodes[Iterator]
      Next == increment(t, Iterator)
  IN  IF ~Holds(t, NodeInfo.Node) /\ Outcome = "fault"
        THEN [t |-> [t EXCEPT !.crashed = TRUE, !.branch = "dereference"],
              Iterator |-> Iterator]
        ELSE LET r == erase(t, NodeInfo.Key)
             IN  [t |-> r,
                  Iterator |-> IF Next = end(t)
                                 THEN end(r)
                                 ELSE Position(r.Nodes, t.Nodes[Next])]

\* ----------------------------------------------------------------- actions

\* The operation that last changed the tree and the code path it took.
Op(name, branch) == [op |-> name, branch |-> branch]

\* The sequence s without the key k, and with k moved to its front.
Without(s, k) == SelectSeq(s, LAMBDA x : x # k)
Front(s, k) == <<k>> \o Without(s, k)

Becomes(r) ==
  /\ Root' = r.Root
  /\ heap' = r.heap
  /\ Length' = r.Length
  /\ Nodes' = r.Nodes
  /\ NodeToNodesIterator' = r.NodeToNodesIterator
  /\ crashed' = r.crashed

\* An address the allocator may hand out again, or nullptr for none of them.
ReuseChoices == Dangling(Cur) \cup {nullptr}

\* The nodes insert and operator[] allocate for Key, which is the same for
\* both: none where the key ends at a node (exact_match), one for a new leaf
\* and for a split where the key ends, two for a split with a new leaf.
Allocations(Key) ==
  LET branch == insert(Cur, Key, DefaultT, nullptr, nullptr).branch
  IN  IF branch = "split_leaf"
        THEN 2
        ELSE IF branch \in {"new_leaf", "split_here"} THEN 1 ELSE 0

\* What the n-th allocation of insert and of operator[] for Key may reuse; an
\* allocation that is not made reuses nothing.
ReuseAt(Key, n) ==
  IF Dangling(Cur) # {} /\ Allocations(Key) >= n THEN ReuseChoices ELSE {nullptr}

Init ==
  /\ Root = << <<>>, 1 >>
  /\ heap = [n \in {<< <<>>, 1 >>} |-> node(<<>>, <<>>)]
  /\ Length = 0
  /\ Nodes = <<>>
  /\ NodeToNodesIterator = <<>>
  /\ crashed = FALSE
  /\ cleared = FALSE
  /\ stored = [k \in Keys |-> <<>>]
  /\ touched = <<>>
  /\ lastOp = Op("tree", "none")

InsertKey(Key, Value, R1, R2) ==
  /\ UNCHANGED cleared
  /\ ~crashed
  /\ Length < MaxLength
  /\ \E r \in {insert(Cur, Key, Value, R1, R2)} :
         /\ Becomes(r)
         /\ stored' = IF r.crashed THEN stored ELSE [stored EXCEPT ![Key] = <<Value>>]
         /\ touched' = IF r.crashed THEN touched ELSE Front(touched, Key)
         /\ lastOp' = Op("insert", r.branch)

SubscriptKey(Key, R1, R2) ==
  /\ UNCHANGED cleared
  /\ ~crashed
  /\ Length < MaxLength
  /\ \E r \in {subscript(Cur, Key, R1, R2)} :
         /\ Becomes(r)
         /\ stored' = IF r.crashed \/ stored[Key] # <<>>
                        THEN stored ELSE [stored EXCEPT ![Key] = <<DefaultT>>]
         /\ touched' = IF r.crashed THEN touched ELSE Front(touched, Key)
         /\ lastOp' = Op("subscript", r.branch)

EraseKey(Key) ==
  /\ UNCHANGED cleared
  /\ ~crashed
  /\ \E r \in {erase(Cur, Key)} :
         /\ Becomes(r)
         /\ stored' = IF r.crashed THEN stored ELSE [stored EXCEPT ![Key] = <<>>]
         /\ touched' = IF r.crashed THEN touched ELSE Without(touched, Key)
         /\ lastOp' = Op("erase", r.branch)

EraseAt(Iterator, Outcome) ==
  /\ UNCHANGED cleared
  /\ ~crashed
  /\ \E r \in {eraseIterator(Cur, Iterator, Outcome).t}, key \in {Nodes[Iterator].Key} :
         /\ Becomes(r)
         /\ stored' = IF r.crashed THEN stored ELSE [stored EXCEPT ![key] = <<>>]
         /\ touched' = IF r.crashed THEN touched ELSE Without(touched, key)
         /\ lastOp' = Op("erase", r.branch)

\* A tree is followed through one clear(), which bounds the entries of
\* destroyed nodes that Nodes and NodeToNodesIterator collect.
ClearTree(R1) ==
  /\ ~crashed
  /\ ~cleared
  /\ cleared' = TRUE
  /\ \E r \in {clear(Cur, R1)} :
         /\ Becomes(r)
         /\ stored' = [k \in Keys |-> <<>>]
         /\ touched' = <<>>
         /\ lastOp' = Op("clear", r.branch)

\* tree Copy(Tree) and Copy = Tree: Other is const, the tree that is followed
\* is the one copied from.
CopyTree(Assign) ==
  /\ ~crashed
  /\ \E made \in {IF Assign THEN copy_assign(Cur, Cur, FALSE) ELSE copy(Cur)} :
       made.Length = Length
  /\ UNCHANGED vars

\* tree To(std::move(Tree)) and To = std::move(Tree): the tree that is
\* followed from here on is the one moved to.
MoveTree(Assign) ==
  /\ ~crashed
  /\ \E made \in {IF Assign THEN move_assign(Cur, Cur, FALSE) ELSE move(Cur)} :
       Becomes(made.This)
  /\ UNCHANGED <<cleared, stored, touched, lastOp>>

\* contains returns true or false; the members are what its loop leaves.
ContainsKey(Key) ==
  /\ ~crashed
  /\ contains(Cur, Key) \in BOOLEAN
  /\ \E r \in {traverse(Cur, TRUE, Key, Root)} : Becomes(r)
  /\ UNCHANGED <<cleared, stored, touched, lastOp>>

\* AportRadixMode is fixed when the header is compiled: both builds are run.
GetKey(Key, AportRadixMode) ==
  /\ ~crashed
  /\ get(Cur, AportRadixMode, Key).thrown \in BOOLEAN
  /\ \E r \in {traverse(Cur, AportRadixMode, Key, Root)} : Becomes(r)
  /\ UNCHANGED <<cleared, stored, touched, lastOp>>

Insert ==
  \E Key \in Keys, Value \in Values :
    \E R1 \in ReuseAt(Key, 1), R2 \in ReuseAt(Key, 2) : InsertKey(Key, Value, R1, R2)

Subscript ==
  \E Key \in Keys :
    \E R1 \in ReuseAt(Key, 1), R2 \in ReuseAt(Key, 2) : SubscriptKey(Key, R1, R2)

Erase == \E Key \in Keys : EraseKey(Key)

EraseIterator ==
  \E Iterator \in begin(Cur) .. end(Cur) - 1 :
    \E Outcome \in IF Holds(Cur, Nodes[Iterator].Node) THEN {"returns"} ELSE Undefined :
      EraseAt(Iterator, Outcome)

Clear == \E R1 \in ReuseChoices : ClearTree(R1)

Copy == \E Assign \in BOOLEAN : CopyTree(Assign)

Move == \E Assign \in BOOLEAN : MoveTree(Assign)

Contains == \E Key \in Keys : ContainsKey(Key)

Get == \E Key \in Keys, AportRadixMode \in BOOLEAN : GetKey(Key, AportRadixMode)

Next == Insert \/ Subscript \/ Erase \/ EraseIterator \/ Clear \/ Copy \/ Move
          \/ Contains \/ Get

Spec == Init /\ [][Next]_vars

\* The operations that change the tree.  Copy, Move, Contains and Get leave
\* every variable of the tree they are called on as it is, so the states
\* reachable by the mutations alone are the states reachable under Spec.
NextMutations == Insert \/ Subscript \/ Erase \/ EraseIterator \/ Clear

SpecMutations == Init /\ [][NextMutations]_vars

\* A tree that is never cleared: insert, operator[] and erase, by key and by
\* iterator.
NextNoClear == Insert \/ Subscript \/ Erase \/ EraseIterator

SpecNoClear == Init /\ [][NextNoClear]_vars

\* -------------------------------------------------------------- properties

\* The keys an iteration from begin() to end() visits.
KeysOf(L) == [i \in DOMAIN L |-> L[i].Key]

\* The nodes of the tree that hold a value.
Holding(t) == {n \in DOMAIN t.heap : Holds(t, n)}

\* What a caller can observe of a tree.
Observable(t) ==
  [length |-> length(t),
   contains |-> [k \in Keys |-> contains(t, k)],
   get |-> [k \in Keys |-> get(t, TRUE, k)],
   iteration |-> KeysOf(t.Nodes)]

\* Length is at least the number of nodes holding a value and the number of
\* entries of Nodes, so that -- Length never wraps around.
LengthInRange ==
  /\ Length >= Cardinality(Holding(Cur))
  /\ Length >= Len(Nodes)

\* C1: every key whose most recent insert(k, v) was not followed by erase(k)
\* or clear() is returned by get in radix mode, with exactly the value v.
C1_RoundTrip ==
  \A k \in Keys : stored[k] # <<>> => get(Cur, TRUE, k) = Returned(stored[k][1])

\* After a clear(), "aa" was inserted and the insert of "ab" has split its
\* node: get("aa") returns the inserted value from under the new node.
C1_Witness ==
  /\ lastOp = Op("insert", "split_leaf")
  /\ cleared
  /\ get(Cur, TRUE, <<"a", "a">>) = Returned(1)
  /\ stored[<<"a", "a">>] = <<1>>
  /\ stored[<<"a", "b">>] # <<>>
  /\ stored[<<"a">>] = <<>>

\* C2: in every state and for every key, contains(k) is true exactly when k
\* was inserted (by insert or operator[]) and not erased or cleared since.
C2_Containment ==
  \A k \in Keys : contains(Cur, k) <=> stored[k] # <<>>

\* erase("a") has merged the node of "a" with its child: the empty key and
\* "aa" are stored, and contains is false for "a", a proper prefix of "aa"
\* and an extension of the empty key, and for "b", which has no node.
C2_Witness ==
  /\ lastOp = Op("erase", "one_child")
  /\ ~crashed
  /\ ~contains(Cur, <<"b">>)
  /\ ~contains(Cur, <<"a">>)
  /\ stored[<<>>] # <<>>
  /\ stored[<<"a", "a">>] # <<>>
  /\ stored[<<"a">>] = <<>>
  /\ stored[<<"b">>] = <<>>

\* C3: after every operation Length is the number of nodes holding a value,
\* the number of entries of Nodes and the number of entries of
\* NodeToNodesIterator.
C3_LengthInvariant ==
  /\ Length = Cardinality(Holding(Cur))
  /\ Length = Len(Nodes)
  /\ Length = Cardinality(DOMAIN NodeToNodesIterator)

\* C4: erase(k) of a key that holds no value returns having changed nothing:
\* Length, the nodes, the values and the tracking index are as before.
C4_EraseAbsentNoOp ==
  [][\A k \in Keys :
       (stored[k] = <<>> /\ EraseKey(k)) =>
         /\ ~crashed'
         /\ UNCHANGED <<Root, heap, Length, Nodes, NodeToNodesIterator>>]_vars

\* C5: erase(k) of a key that holds a value decreases Length by exactly 1,
\* makes contains(k) false and makes get(k) throw, whatever the number of
\* children of the erased node and also at the root.
C5_ErasePresent ==
  ~crashed =>
    \A k \in Keys :
      stored[k] # <<>> =>
        \A r \in {erase(Cur, k)} :
            /\ ~r.crashed
            /\ length(r) = length(Cur) - 1
            /\ ~contains(r, k)
            /\ get(r, TRUE, k).thrown

\* An erase of a stored key has merged the erased node with its only child.
C5_Witness ==
  /\ lastOp = Op("erase", "one_child")
  /\ ~crashed
  /\ Length = Cardinality(Holding(Cur))
  /\ Length > 0

\* S is T with some elements left out.
RECURSIVE IsSubSeq(_, _)
IsSubSeq(S, T) ==
  IF S = <<>> THEN TRUE
  ELSE IF T = <<>> THEN FALSE
  ELSE IF Head(S) = Head(T) THEN IsSubSeq(Tail(S), Tail(T))
  ELSE IsSubSeq(S, Tail(T))

\* The keys, in the order of the tracking index, of the entries whose node
\* holds a value, without the key k.
OtherEntries(t, k) ==
  KeysOf(SelectSeq(t.Nodes, LAMBDA e : Holds(t, e.Node) /\ e.Key # k))

\* C6: erase(k) leaves get and contains of every other key as they were,
\* keeps the entry of every other stored key in the tracking index, and
\* leaves the entries of the tracking index in the order they had.
C6_EraseFrame ==
  ~crashed =>
    \A before \in {Observable(Cur)} :
      \A k \in Keys :
        \A r \in {erase(Cur, k)} :
          /\ \A k2 \in Keys \ {k} :
                /\ get(r, TRUE, k2) = before.get[k2]
                /\ contains(r, k2) = before.contains[k2]
          /\ OtherEntries(r, k) = OtherEntries(Cur, k)
          /\ IsSubSeq(KeysOf(r.Nodes), before.iteration)

\* An erase has removed a leaf and merged its value-less parent with the one
\* child the parent had left, which still holds its key.
C6_Witness ==
  /\ lastOp = Op("erase", "leaf_merge_parent")
  /\ \E k \in Keys : stored[k] # <<>>
  /\ Len(Nodes) >= 1

\* C7: for every key, erase(k) twice in a row leaves the same observable
\* state (length, contains and get of every key, iteration) as erase(k) once.
C7_IdempotentErase ==
  ~crashed =>
    \A k \in Keys :
      \A once \in {erase(Cur, k)} :
        ~once.crashed =>
          \A twice \in {erase(once, k)} :
            /\ ~twice.crashed
            /\ Observable(twice) = Observable(once)

\* C8: after clear() Length is 0, the tracking index and the node lookup are
\* empty, no key is contained and the root is a node with an empty prefix,
\* no value and no children.
C8_ClearResets ==
  lastOp.op = "clear" =>
    /\ length(Cur) = 0
    /\ Nodes = <<>>
    /\ NodeToNodesIterator = <<>>
    /\ \A k \in Keys : ~contains(Cur, k)
    /\ heap[Root] = node(<<>>, <<>>)

\* C9: in radix mode get(k) throws no_such_key exactly when k holds no
\* value, the exception carries the whole key k, and a returned value is the
\* value stored for k.
C9_GetFails ==
  \A k \in Keys :
    LET g == get(Cur, TRUE, k)
    IN  /\ g.thrown <=> stored[k] = <<>>
        /\ g.thrown => g.KeyName = k /\ g.value = <<>>
        /\ ~g.thrown => g.value = stored[k]

\* An erase of "a" has left its node value-less with the children "aa" and
\* "ab": get("a") ends in exact_match there and throws with the key "a".
C9_Witness ==
  /\ lastOp = Op("erase", "many_children")
  /\ get(Cur, TRUE, <<"a">>).thrown
  /\ get(Cur, TRUE, <<"a">>).KeyName = <<"a">>
  /\ stored[<<"a", "a">>] # <<>>
  /\ stored[<<"a", "b">>] # <<>>
  /\ stored[<<"a">>] = <<>>
  /\ stored[<<"b">>] = <<>>
  /\ stored[<<>>] = <<>>

\* C10: insert(k, v) increases Length by exactly 1 when k holds no value and
\* leaves it unchanged when k holds one, and k then holds v.
C10_InsertLength ==
  ~crashed =>
    \A k \in Keys, v \in Values :
      \A r \in {insert(Cur, k, v, R1, R2) : R1 \in ReuseAt(k, 1), R2 \in ReuseAt(k, 2)} :
          /\ ~r.crashed
          /\ length(r) = length(Cur) + (IF stored[k] = <<>> THEN 1 ELSE 0)
          /\ get(r, TRUE, k) = Returned(v)

\* An insert has given a value to a value-less node that was already there,
\* while other keys are stored.
C10_Witness ==
  /\ lastOp = Op("insert", "fill")
  /\ ~crashed
  /\ Length >= 2

\* What an iteration yields when every entry is the entry of a stored key:
\* the keys of touched in their order, each with its stored value.
TouchOrder ==
  [i \in DOMAIN touched |->
     [Key |-> touched[i], Value |-> stored[touched[i]], Node |-> "live"]]

\* C11: in a tree that was only inserted into, overwritten, read through
\* operator[] or erased from, an iteration from begin() to end() yields one
\* (key, value) pair for each key that holds a value and no other pair, the
\* key inserted or overwritten last first.
C11_IterationOrder ==
  ~cleared =>
    /\ iterate(Cur) = TouchOrder
    /\ {touched[i] : i \in DOMAIN touched} = {k \in Keys : stored[k] # <<>>}
    /\ Len(touched) = Cardinality({k \in Keys : stored[k] # <<>>})

\* "aa" and then "ab" were inserted and the last insert overwrote "aa": the
\* iteration has two pairs and starts with the overwritten key.
C11_Witness ==
  /\ lastOp = Op("insert", "overwrite")
  /\ ~cleared
  /\ KeysOf(Nodes) = << <<"a", "a">>, <<"a", "b">> >>
  /\ dereference(Cur, begin(Cur)).Key = touched[1]
  /\ dereference(Cur, begin(Cur)).Value = <<1>>

\* C12: operator[](k) on a key that holds a value returns that value and
\* changes neither it nor length(); on a key that holds none it stores a
\* default-constructed value at k and returns it, length() grows by exactly
\* 1 and contains(k) is true afterwards.
C12_GetOrInsert ==
  ~crashed =>
    \A k \in Keys :
      \A r \in {subscript(Cur, k, R1, R2) : R1 \in ReuseAt(k, 1), R2 \in ReuseAt(k, 2)} :
        /\ ~r.crashed
        /\ contains(r, k)
        /\ IF stored[k] # <<>>
             THEN /\ r.heap[r.Return].Data = stored[k]
                  /\ get(r, TRUE, k) = Returned(stored[k][1])
                  /\ length(r) = length(Cur)
             ELSE /\ r.heap[r.Return].Data = <<DefaultT>>
                  /\ get(r, TRUE, k) = Returned(DefaultT)
                  /\ length(r) = length(Cur) + 1

\* operator[]("a") has found the node that "aa" and "ab" share, which held
\* no value, and has stored the default value in it.
C12_Witness ==
  /\ lastOp = Op("subscript", "fill")
  /\ ~crashed
  /\ stored[<<"a">>] = <<DefaultT>>
  /\ get(Cur, TRUE, <<"a">>) = Returned(DefaultT)
  /\ stored[<<"a", "a">>] # <<>>
  /\ stored[<<"a", "b">>] # <<>>

\* C13: after operator[](k), whether k was stored by the call or held a
\* value before it, the first entry of the iteration order is the entry of
\* k, and the other entries follow in the order they had before the call.
C13_SubscriptTouches ==
  ~crashed =>
    \A k \in Keys :
      \A r \in {subscript(Cur, k, R1, R2) : R1 \in ReuseAt(k, 1), R2 \in ReuseAt(k, 2)} :
        /\ r.Nodes # <<>>
        /\ r.Nodes[1] = [Key |-> k, Node |-> r.Return]
        /\ \A i \in 2 .. Len(r.Nodes) : r.Nodes[i].Node # r.Return
        /\ OtherEntries(r, k) = OtherEntries(Cur, k)
        /\ IsSubSeq(KeysOf(Tail(r.Nodes)), KeysOf(Nodes))

\* Two keys hold a value and operator[] has read one of them: its entry is
\* the first of the iteration.
C13_Witness ==
  /\ lastOp = Op("subscript", "read")
  /\ ~crashed
  /\ Len(Nodes) = 2
  /\ Nodes[1].Key = touched[1]
  /\ Holds(Cur, Nodes[1].Node)

\* The members of a tree, without the notes the model keeps of a call.
Members(t) ==
  [Root |-> t.Root, heap |-> t.heap, Length |-> t.Length, Nodes |-> t.Nodes,
   NodeToNodesIterator |-> t.NodeToNodesIterator, crashed |-> t.crashed]

\* C14: for an iterator at any entry of Nodes, with key k, erase(iterator)
\* leaves the tree as erase(k) leaves it (and returns where erase(k)
\* returns), and the iterator it returns designates the entry that followed
\* the entry of k before the call, which is still an entry of Nodes, or is
\* end() if the entry of k was the last.
C14_EraseByIterator ==
  ~crashed =>
    \A Iterator \in begin(Cur) .. end(Cur) - 1, Outcome \in Undefined :
      \A e \in {eraseIterator(Cur, Iterator, Outcome)} :
        /\ Members(e.t) = Members(erase(Cur, Nodes[Iterator].Key))
        /\ ~e.t.crashed =>
             IF increment(Cur, Iterator) = end(Cur)
               THEN e.Iterator = end(e.t)
               ELSE /\ e.Iterator \in DOMAIN e.t.Nodes
                    /\ e.t.Nodes[e.Iterator].Key = Nodes[increment(Cur, Iterator)].Key

\* C15: a copy of any reachable tree, made by the copy constructor or by
\* copy assignment, has the length() of the original, the same contains and
\* get result for every key, and an iteration of the copy yields what an
\* iteration of the original yields, in the same order.
C15_CopyFidelity ==
  ~crashed =>
    \A c \in {copy(Cur), copy_assign(Cur, Cur, FALSE)} :
      /\ length(c) = length(Cur)
      /\ \A k \in Keys : /\ contains(c, k) = contains(Cur, k)
                         /\ get(c, TRUE, k) = get(Cur, TRUE, k)
      /\ iterate(c) = iterate(Cur)

\* The addresses a tree refers to: its root, the children of its nodes, and
\* the nodes that Nodes and NodeToNodesIterator name.
Referred(t) ==
  {t.Root}
    \cup UNION {{t.heap[n].FirstCharToNode[c] : c \in DOMAIN t.heap[n].FirstCharToNode} :
                 n \in DOMAIN t.heap}
    \cup {t.Nodes[i].Node : i \in DOMAIN t.Nodes}
    \cup DOMAIN t.NodeToNodesIterator
    \cup {t.NodeToNodesIterator[n].Node : n \in DOMAIN t.NodeToNodesIterator}

\* C16: a copy of any reachable tree has no node of the original, and its
\* root, the children of its nodes, the entries of its Nodes and the keys of
\* its NodeToNodesIterator are all nodes the copy owns (so that no call on
\* the copy reaches a node of the original).
C16_CopyIndependence ==
  ~crashed =>
    \A c \in {copy(Cur)} :
      /\ (DOMAIN c.heap) \cap ((DOMAIN heap) \cup Referred(Cur)) = {}
      /\ DOMAIN c.heap = Owned(c.heap, c.Root)
      /\ Referred(c) \subseteq DOMAIN c.heap

\* C17: after a move construction or a move assignment from a tree S, the
\* tree moved to has the members S had, and S has length() 0, begin() equal
\* to end(), and a root without a value and without children, so that
\* contains is false for every key.
C17_MovedFromEmpty ==
  ~crashed =>
    \A m \in {move(Cur), move_assign(Cur, Cur, FALSE)} :
      /\ Members(m.This) = Members(Cur)
      /\ length(m.Other) = 0
      /\ begin(m.Other) = end(m.Other)
      /\ m.Other.Root \in DOMAIN m.Other.heap
      /\ m.Other.heap[m.Other.Root] = node(<<>>, <<>>)
      /\ \A k \in Keys : ~contains(m.Other, k)

\* C18: for a key that is not stored, get with radix verification throws
\* no_such_key, and get with optimistic verification either throws or returns
\* the value of a stored key of the same length.
C18_OptimisticAccuracy ==
  \A k \in Keys :
    stored[k] = <<>> =>
      /\ get(Cur, TRUE, k).thrown
      /\ \A g \in {get(Cur, FALSE, k)} :
           ~g.thrown =>
             \E k2 \in Keys \ {k} :
               /\ stored[k2] # <<>>
               /\ Len(k2) = Len(k)
               /\ g = Returned(stored[k2][1])

\* "aa" is stored in a node with the prefix "aa" and "ab" is not stored:
\* the optimistic get("ab") chooses the child by 'a', compares lengths only
\* and returns the value of "aa", while the radix get("ab") throws.
C18_Witness ==
  /\ stored[<<"a", "a">>] = <<1>>
  /\ stored[<<"a", "b">>] = <<>>
  /\ heap[heap[Root].FirstCharToNode["a"]].Prefix = <<"a", "a">>
  /\ get(Cur, FALSE, <<"a", "b">>) = Returned(1)
  /\ get(Cur, TRUE, <<"a", "b">>) = no_such_key(<<"a", "b">>)

\* C19: contains(k) and get(k), in either mode and whether get returns or
\* throws, leave the nodes, the values, Length, Nodes and
\* NodeToNodesIterator as they were, and contains returns true or false for
\* every key; length(), begin() and end() read Length and Nodes only.
C19_LookupsReadOnly ==
  ~crashed =>
    /\ \A k \in Keys :
         /\ contains(Cur, k) \in BOOLEAN
         /\ \A UseRadix \in BOOLEAN :
              Members(traverse(Cur, UseRadix, k, Root)) = Members(Cur)
    /\ length(Cur) = Length
    /\ begin(Cur) = 1
    /\ end(Cur) = Len(Nodes) + 1

\* "aa" and "ab" are stored under a node that holds no value: get("a")
\* throws, get("b") finds no child of the root and throws, contains("aa")
\* is true, and the tree is as it was.
C19_Witness ==
  /\ lastOp = Op("insert", "split_leaf")
  /\ get(Cur, TRUE, <<"a">>).thrown
  /\ get(Cur, TRUE, <<"b">>).thrown
  /\ contains(Cur, <<"a", "a">>)
  /\ Members(traverse(Cur, TRUE, <<"b">>, Root)) = Members(Cur)
  /\ Len(Nodes) = 2

\* Every node but the root holds a value or has at least two children.
Compact(t) ==
  \A n \in (DOMAIN t.heap) \ {t.Root} :
    t.heap[n].Data = <<>> => Cardinality(DOMAIN t.heap[n].FirstCharToNode) >= 2

\* The prefixes from the root to a node spell the key the node stands for
\* (the path its address is written with), and a child is filed under the
\* first character of its prefix.
Spells(t) ==
  /\ t.Root[1] = <<>>
  /\ t.heap[t.Root].Prefix = <<>>
  /\ \A n \in DOMAIN t.heap : \A c \in DOMAIN t.heap[n].FirstCharToNode :
       LET Child == t.heap[n].FirstCharToNode[c]
       IN  /\ Child[1] = n[1] \o t.heap[Child].Prefix
           /\ t.heap[Child].Prefix # <<>>
           /\ c = t.heap[Child].Prefix[1]

\* C20: in every state (so after every insert, operator[] and erase, by key
\* or by iterator) every node but the root holds a value or has at least two
\* children, also where it holds a value and has children; a node that took
\* the place of a merged parent has the parent's prefix followed by its own.
C20_Compaction == Compact(Cur) /\ Spells(Cur)

\* erase has removed a leaf and merged its value-less parent, left with one
\* child, into that child: the child hangs at the root with a prefix of two
\* characters.
C20_Witness ==
  /\ lastOp = Op("erase", "leaf_merge_parent")
  /\ ~crashed
  /\ \E c \in DOMAIN heap[Root].FirstCharToNode :
       LET Child == heap[Root].FirstCharToNode[c]
       IN  /\ Len(heap[Child].Prefix) = 2
           /\ heap[Child].Data # <<>>

\* C21: in every state the root exists and has the empty prefix (no erase,
\* of the empty key or of another, removes it), it is no node's child, every
\* other node has a non-empty prefix, and every child is a node of the tree
\* filed under the first character of its own prefix, so the children of one
\* node start with different characters; splits and merges keep this.
C21_RadixStructure ==
  /\ Root \in DOMAIN heap
  /\ heap[Root].Prefix = <<>>
  /\ \A n \in (DOMAIN heap) \ {Root} : Len(heap[n].Prefix) >= 1
  /\ \A n \in DOMAIN heap :
       /\ \A c \in DOMAIN heap[n].FirstCharToNode :
            /\ heap[n].FirstCharToNode[c] \in (DOMAIN heap) \ {Root}
            /\ Deref(heap[heap[n].FirstCharToNode[c]].Prefix, 0) = c
       /\ \A c, d \in DOMAIN heap[n].FirstCharToNode :
            c # d => Deref(heap[heap[n].FirstCharToNode[c]].Prefix, 0)
                       # Deref(heap[heap[n].FirstCharToNode[d]].Prefix, 0)

\* erase has removed the value of a node with one child and merged the node
\* into that child, which now hangs at the root under "a" with the prefix
\* "ab", beside a second child of the root.
C21_Witness ==
  /\ lastOp = Op("erase", "one_child")
  /\ ~crashed
  /\ DOMAIN heap[Root].FirstCharToNode = {"a", "b"}
  /\ heap[heap[Root].FirstCharToNode["a"]].Prefix = <<"a", "b">>

\* What may be left of a key when a node is compared: the keys' suffixes.
Suffixes == UNION {{Drop(k, i) : i \in 0..Len(k)} : k \in Keys}

\* C22: no insert and no operator[] has taken the no_match branch
\* (PATH_UNREACHABLE) or split with a null parent; for every key the
\* comparison at the root gives exact_match or prefix_full_match, never
\* no_match or partial_match, and at every child, for every rest of a key
\* that selects it by its first character, the comparison never gives
\* no_match.
C22_NoMatchUnreachable ==
  /\ lastOp.branch \notin {"no_match", "null_parent"}
  /\ \A k \in Keys :
       compare_prefixes(TRUE, heap[Root].Prefix, k).Result
         \in {"exact_match", "prefix_full_match"}
  /\ \A n \in DOMAIN heap : \A c \in DOMAIN heap[n].FirstCharToNode :
       \A KeyPtr \in {s \in Suffixes : Deref(s, 0) = c} :
         \A cmp \in {compare_prefixes(TRUE, heap[heap[n].FirstCharToNode[c]].Prefix,
                                      KeyPtr)} :
           cmp.Result # "no_match" /\ cmp.NMatched >= 1

\* operator[] has walked from the root to the child "aa" selected by "a",
\* compared the rest "ab" with its prefix (partial_match, one character) and
\* split it under a non-null parent.
C22_Witness ==
  /\ lastOp = Op("subscript", "split_leaf")
  /\ ~crashed
  /\ "a" \in DOMAIN heap[Root].FirstCharToNode
  /\ heap[heap[Root].FirstCharToNode["a"]].Prefix = <<"a">>
  /\ DOMAIN heap[heap[Root].FirstCharToNode["a"]].FirstCharToNode = {"a", "b"}
  /\ compare_prefixes(TRUE, <<"a", "a">>, <<"a", "b">>)
       = [Result |-> "partial_match", NMatched |-> 1]

\* The length of the longest common prefix of two strings.
LongestCommonPrefix(P, S) ==
  CHOOSE m \in 0..Len(P) :
    /\ m <= Len(S)
    /\ Take(P, m) = Take(S, m)
    /\ \A l \in (m + 1)..Len(P) : l <= Len(S) => Take(P, l) # Take(S, l)

\* What C23 says of one comparison but for partial_match: cmp is what
\* compare_prefixes<true> returns, m is the length of the longest common
\* prefix, the count is m, and the three other results are told apart as
\* stated.
Classified(Prefix, String, cmp, m) ==
  /\ cmp = compare_prefixes(TRUE, Prefix, String)
  /\ m = LongestCommonPrefix(Prefix, String)
  /\ cmp.NMatched = m
  /\ cmp.Result \in {"no_match", "prefix_full_match", "exact_match",
                     "partial_match"}
  /\ cmp.Result = "no_match" <=> (m = 0 /\ Prefix # <<>>)
  /\ cmp.Result = "prefix_full_match" <=> (m = Len(Prefix) /\ Len(String) > m)
  /\ cmp.Result = "exact_match" <=> (m = Len(Prefix) /\ Len(String) = m)

\* The prefixes of the nodes of the tree.
Prefixes == {heap[n].Prefix : n \in DOMAIN heap}

InsertsNew(Key, Value) ==
  /\ lastOp'.op = "insert"
  /\ heap' # heap
  /\ ~crashed'
  /\ touched' # <<>>
  /\ touched'[1] = Key
  /\ stored[Key] = <<>>
  /\ stored'[Key] = <<Value>>

\* The step has split Node, a child of Parent, for Key: the new node
\* Intermediate has taken its place with the first NMatched characters of its
\* prefix, Node is the same node with the rest of the prefix, its value and
\* its children, and is filed in Intermediate; the value is in a new leaf
\* beside it with the rest of the key, or in Intermediate when no key is left.
SplitAt(Key, Value, Parent, Node, Intermediate) ==
  LET Prefix == heap[Node].Prefix
      KeyPtr0 == Drop(Key, Len(Node[1]) - Len(Prefix))
      NMatched == LongestCommonPrefix(Prefix, KeyPtr0)
      KeyPtr == Drop(KeyPtr0, NMatched)
      Leaves == (DOMAIN heap') \ ((DOMAIN heap) \cup {Intermediate})
  IN  /\ NMatched >= 1
      /\ NMatched < Len(Prefix)
      /\ \E c \in DOMAIN heap[Parent].FirstCharToNode :
           /\ heap[Parent].FirstCharToNode[c] = Node
           /\ heap'[Parent] = [heap[Parent] EXCEPT !.FirstCharToNode[c] = Intermediate]
      /\ heap'[Intermediate].Prefix = Take(Prefix, NMatched)
      /\ heap'[Node] = [heap[Node] EXCEPT !.Prefix = Drop(Prefix, NMatched)]
      /\ Deref(heap'[Node].Prefix, 0) \in DOMAIN heap'[Intermediate].FirstCharToNode
      /\ heap'[Intermediate].FirstCharToNode[Deref(heap'[Node].Prefix, 0)] = Node
      /\ \A n \in (DOMAIN heap) \ {Parent, Node} : n \in DOMAIN heap' /\ heap'[n] = heap[n]
      /\ IF Len(KeyPtr) > 0
           THEN /\ lastOp'.branch = "split_leaf"
                /\ heap'[Intermediate].Data = <<>>
                /\ \E NewNode \in Leaves :
                     /\ Leaves = {NewNode}
                     /\ heap'[NewNode] = node(KeyPtr, <<Value>>)
                     /\ heap'[Intermediate].FirstCharToNode =
                          Put(Put(<<>>, Deref(heap'[Node].Prefix, 0), Node),
                              Deref(KeyPtr, 0), NewNode)
                     /\ Nodes'[1] = [Key |-> Key, Node |-> NewNode]
           ELSE /\ lastOp'.branch = "split_here"
                /\ Leaves = {}
                /\ heap'[Intermediate].Data = <<Value>>
                /\ heap'[Intermediate].FirstCharToNode =
                     Put(<<>>, Deref(heap'[Node].Prefix, 0), Node)
                /\ Nodes'[1] = [Key |-> Key, Node |-> Intermediate]

\* C24: a step that inserts a key k which held no value leaves get and
\* contains of every other key as they were and the entries of the other
\* stored keys in the tracking index in the order they had; when the step
\* splits a node, the intermediate node has the matched segment, the split
\* node is the same node with the rest of its prefix, its value and its
\* children and is a child of the intermediate node, and the value is in a
\* new second child if key is left, else in the intermediate node.
C24_InsertFrame ==
  [][\A Key \in Keys, Value \in Values :
       InsertsNew(Key, Value) =>
         /\ \A k2 \in Keys \ {Key} :
              /\ get(Cur', TRUE, k2) = get(Cur, TRUE, k2)
              /\ contains(Cur', k2) = contains(Cur, k2)
         /\ OtherEntries(Cur', Key) = OtherEntries(Cur, Key)
         /\ get(Cur', TRUE, Key) = Returned(Value)
         /\ lastOp'.branch \in {"split_leaf", "split_here"} =>
              \E Parent \in DOMAIN heap, Node \in DOMAIN heap :
                \E Intermediate \in (DOMAIN heap') \ (DOMAIN heap) :
                  SplitAt(Key, Value, Parent, Node, Intermediate)]_vars

\* insert("a") has split the node "aa", which holds a value, while "b" is
\* stored: the intermediate node "a" holds the new value, the node "aa" is
\* its only child with the prefix "a", and all three keys are retrievable.
C24_Witness ==
  /\ lastOp = Op("insert", "split_here")
  /\ ~crashed
  /\ touched = << <<"a">>, <<"a", "a">>, <<"b">> >>
  /\ heap[heap[Root].FirstCharToNode["a"]].Data = <<1>>
  /\ heap[heap[Root].FirstCharToNode["a"]].Prefix = <<"a">>
  /\ DOMAIN heap[heap[Root].FirstCharToNode["a"]].FirstCharToNode = {"a"}
  /\ \A k \in {<<"a">>, <<"a", "a">>, <<"b">>} : get(Cur, TRUE, k) = Returned(1)

\* The prefixes on the way from the root to the node n, one after the other.
RECURSIVE PathPrefixes(_, _)
PathPrefixes(t, n) ==
  IF n = t.Root
    THEN t.heap[n].Prefix
    ELSE LET Parent == CHOOSE p \in DOMAIN t.heap :
                         \E c \in DOMAIN t.heap[p].FirstCharToNode :
                           t.heap[p].FirstCharToNode[c] = n
         IN  PathPrefixes(t, Parent) \o t.heap[n].Prefix

\* C25: in every state every entry (key, node) of the tracking index names a
\* node of the tree that holds a value, its key is the prefixes from the root
\* to that node one after the other, and NodeToNodesIterator maps the node to
\* that entry.
C25_TrackedKeys ==
  \A i \in DOMAIN Nodes :
    /\ Nodes[i].Node \in Owned(heap, Root)
    /\ heap[Nodes[i].Node].Data # <<>>
    /\ PathPrefixes(Cur, Nodes[i].Node) = Nodes[i].Key
    /\ Nodes[i].Node \in DOMAIN NodeToNodesIterator
    /\ NodeToNodesIterator[Nodes[i].Node] = Nodes[i]

\* C26: in every state, so after any insert, operator[], erase and clear,
\* every cursor position from begin() up to end() names a node that the root
\* still owns and that holds a value, so operator* reads neither a destroyed
\* node nor an empty optional.
C26_IteratorBacked ==
  \A Iterator \in begin(Cur) .. end(Cur) - 1 :
    /\ dereference(Cur, Iterator).Node = "live"
    /\ Nodes[Iterator].Node \in Owned(heap, Root)
    /\ dereference(Cur, Iterator).Value # <<>>

\* C27: for every key that holds a value, get with optimistic verification
\* visits the same nodes as get with radix verification and returns the same
\* value, the one stored; so the two can differ only for a key that holds no
\* value.
C27_OptimisticAgrees ==
  \A t \in {Cur} : \A k \in Keys :
    \A optimistic \in {get(t, FALSE, k)}, radix \in {get(t, TRUE, k)} :
      /\ stored[k] # <<>> =>
           /\ optimistic = Returned(stored[k][1])
           /\ optimistic = radix
           /\ getPath(t, FALSE, k, Root) = getPath(t, TRUE, k, Root)
      /\ optimistic # radix => stored[k] = <<>>

\* "ab" and "b" are stored in two children of the root: both modes find
\* each of them on the same path of two nodes, and they differ for "aa",
\* which is not stored: the optimistic get returns the value of "ab".
C27_Witness ==
  /\ ~crashed
  /\ stored[<<"a", "b">>] = <<1>>
  /\ stored[<<"b">>] = <<DefaultT>>
  /\ stored[<<"a", "a">>] = <<>>
  /\ Len(getPath(Cur, FALSE, <<"a", "b">>, Root)) = 2
  /\ getPath(Cur, FALSE, <<"a", "b">>, Root) = getPath(Cur, TRUE, <<"a", "b">>, Root)
  /\ get(Cur, FALSE, <<"b">>) = get(Cur, TRUE, <<"b">>)
  /\ get(Cur, FALSE, <<"a", "a">>) = Returned(1)
  /\ get(Cur, TRUE, <<"a", "a">>).thrown

====
